---- MODULE Spec2Model ----
\* yonnde: a command-line dictionary lookup over Yomichan term banks.
\* Two programs of the repository are modelled side by side (variable variant):
\*   "ts": src/index.ts       DictionarySearcher + DictionaryApp (one global index)
\*   "js": src/unnamed/part_001 and src/index.js (one term bank per collection)
\* and, under SpecFlatten, the pure content renderer logContent.
EXTENDS Integers, Sequences, FiniteSets, TLC

VARIABLES
    variant,            \* "ts" | "js": which program runs
    disk,               \* the dictionaries/ tree, never written by the program
    loadPc,             \* position of loadDictionaries: root|stat|readdir|file|reads|done|failed
    ci,                 \* index of the collection the loader is at
    fi,                 \* ts: index into jsonFiles of the file being read
    pending,            \* js: files of the collection whose read promise is not settled
    termDictionaries,   \* ts: Map term -> entries
    readingIndex,       \* ts: Map reading -> entries
    isReady,            \* ts: DictionarySearcher._isReady
    termBank,           \* js: the local termBank of the collection being loaded
    dictionaryMap,      \* js: sequence of [name, bank] in Map insertion order
    fileState,          \* history: <<c, f>> -> unread|indexed|skipped|partial|failed
    loadError,          \* history: why the load was aborted: none|io|parse|record
    pc,                 \* init|tokenizer|prompt|lemma|closed|failed|crashed
    rlClosed,           \* the readline interface is closed
    stdinEnded,         \* history: process.stdin has ended
    searchTerm,         \* the input of the query cycle in progress (or the last one)
    basicForm,          \* js: the local basicForm of the callback
    qi,                 \* js: the collection the suspended loop is at
    out,                \* what the last query cycle has displayed so far
    tokens,             \* what tokenizer.tokenize(searchTerm) returns for this query
    lemmaLog,           \* history: the getBasicForm calls of the current query
    nInputs,            \* history: how many lines rl.question has read
    probe,              \* the outcome of the last direct findTerm call
    content,            \* flatten: the content tree handed to logContent
    startIndent,        \* flatten: the indent logContent is called with
    lines,              \* flatten: the strings passed to console.log, in order
    logged              \* flatten: logContent has returned

vars == <<variant, disk, loadPc, ci, fi, pending, termDictionaries, readingIndex,
          isReady, termBank, dictionaryMap, fileState, loadError, pc, rlClosed,
          stdinEnded, searchTerm, basicForm, qi, out, tokens, lemmaLog, nInputs, probe,
          content, startIndent, lines, logged>>

loadVars == <<loadPc, ci, fi, pending, termDictionaries, readingIndex, isReady,
              termBank, dictionaryMap, fileState, loadError>>
queryVars == <<searchTerm, basicForm, qi, out, tokens, lemmaLog, nInputs>>
flatVars == <<content, startIndent, lines, logged>>

-----------------------------------------------------------------------------
\* Bounds of the model.
MaxCollections == 2     \* entries under dictionaries/
MaxFiles == 2           \* files on the whole disk
MaxQueries == 2         \* lines read from the prompt
MaxSize == 5            \* values (strings, arrays, objects) in a content tree

-----------------------------------------------------------------------------
\* Strings are sequences of one-character strings. The JavaScript values
\* undefined and null are one-element sequences no string can equal.
Undefined == <<"undefined">>
Null == <<"null">>
Empty == <<>>
Wta == <<"t", "a">>
Wru == <<"r", "u">>
Wka == <<"k", "a">>

\* Raw records of a term bank: a tuple, null, or an object without positions.
Tup(fields) == [k |-> "arr", f |-> fields]
NullRec == [k |-> "null", f |-> <<>>]
ObjRec == [k |-> "obj", f |-> <<>>]

\* File contents the disks are built from.
Good1 == [ext |-> "json", parse |-> "ok", top |-> "array",
          recs |-> <<Tup(<<Wta, Wka>>), Tup(<<Wru, Wru>>)>>]
Good2 == [ext |-> "json", parse |-> "ok", top |-> "array",
          recs |-> <<Tup(<<Wru, Wka>>), Tup(<<Wru, Wka>>), Tup(<<Wka, Empty>>)>>]
BadJson == [ext |-> "json", parse |-> "fail", top |-> "array", recs |-> <<>>]
NullFile == [ext |-> "json", parse |-> "ok", top |-> "array",
             recs |-> <<Tup(<<Wta, Wta>>), Tup(<<>>), NullRec, Tup(<<Wru, Wka>>)>>]
SingleObj == [ext |-> "json", parse |-> "ok", top |-> "single", recs |-> <<ObjRec>>]
NotJson == [ext |-> "txt", parse |-> "fail", top |-> "array", recs |-> <<>>]
FileContents == {Good1, Good2, BadJson, NullFile, SingleObj, NotJson}

RECURSIVE FileSeqs(_)
FileSeqs(n) ==
    IF n = 0 THEN {<<>>}
    ELSE LET shorter == FileSeqs(n - 1)
         IN  shorter \cup {Append(s, c) : s \in {t \in shorter : Len(t) = n - 1},
                                          c \in FileContents}

\* An entry of the collections root: a directory with files, or a plain file.
DirEntries(n) == {[dir |-> TRUE, files |-> s] : s \in FileSeqs(n)}
               \cup {[dir |-> FALSE, files |-> <<>>]}

RECURSIVE Disks(_, _)
Disks(c, n) ==
    IF c = 0 THEN {<<>>}
    ELSE {<<>>} \cup UNION {{<<e>> \o r : r \in Disks(c - 1, n - Len(e.files))}
                            : e \in DirEntries(n)}

\* path.extname(file) === '.json'
jsonFiles(c) ==
    LET idx == [i \in 1..Len(disk[c].files) |-> i]
        IsJson(i) == disk[c].files[i].ext = "json"
    IN  SelectSeq(idx, IsJson)

AllJsonFiles ==
    UNION {{<<c, f>> : f \in {g \in 1..Len(disk[c].files) :
                                 disk[c].dir /\ disk[c].files[g].ext = "json"}}
           : c \in 1..Len(disk)}

-----------------------------------------------------------------------------
\* DictionarySearcher (src/index.ts)

\* rawEntry[i - 1]
At(raw, i) == IF raw.k = "arr" /\ i <= Len(raw.f) THEN raw.f[i] ELSE Undefined

\* rawEntry[5] of null raises a TypeError
formatEntryThrows(raw) == raw.k = "null"

\* The object _formatEntry returns; id is the identity of that object (the
\* place of its record on the disk). The fields beside term and reading are
\* copied from the record and play no part in indexing or lookup.
formatEntry(raw, id) == [id |-> id, term |-> At(raw, 1), reading |-> At(raw, 2)]

\* map.get(key) || []
Get(map, key) == IF key \in DOMAIN map THEN map[key] ELSE <<>>

\* if (!map.has(key)) map.set(key, []); map.get(key)?.push(e)
Push(map, key, e) ==
    [k \in DOMAIN map \cup {key} |-> IF k = key THEN Append(Get(map, key), e) ELSE map[k]]

EmptyMap == [k \in {} |-> <<>>]

\* Array.isArray(parsed) ? parsed : [parsed]
parsedEntries(file) == IF file.top = "array" THEN file.recs ELSE <<file.recs[1]>>

\* for (const entry of entries) { ... }: stops at the record _formatEntry throws on
RECURSIVE indexEntries(_, _, _, _, _)
indexEntries(recs, i, c, f, st) ==
    IF i > Len(recs) THEN st
    ELSE IF formatEntryThrows(recs[i]) THEN [st EXCEPT !.threw = TRUE]
    ELSE LET e == formatEntry(recs[i], <<c, f, i>>)
         IN  indexEntries(recs, i + 1, c, f,
                 [term |-> Push(st.term, e.term, e),
                  reading |-> Push(st.reading, e.reading, e),
                  threw |-> FALSE])

\* the concatenation returned as it is, without the Set
DedupNone(xs) == xs

\* [...new Set(xs)]: first occurrences, by identity
RECURSIVE Dedup(_)
Dedup(xs) ==
    IF xs = <<>> THEN <<>>
    ELSE LET front == Dedup(SubSeq(xs, 1, Len(xs) - 1))
             last == xs[Len(xs)]
         IN  IF \E i \in 1..Len(front) : front[i].id = last.id
             THEN front ELSE Append(front, last)

\* findTerm without its readiness check
findTermUnguarded(key) ==
    [threw |-> FALSE,
     value |-> Dedup(Get(termDictionaries, key) \o Get(readingIndex, key))]

findTerm(key) ==
    IF ~isReady THEN [threw |-> TRUE, value |-> <<>>]
    ELSE [threw |-> FALSE,
          value |-> Dedup(Get(termDictionaries, key) \o Get(readingIndex, key))]

\* The collections loop left after its first iteration
afterCollectionEarly(c) == [pc |-> "done", ci |-> c, over |-> TRUE]

\* Where the collections loop goes after collection c: the next stat, or
\* past the loop (index.ts: this._isReady = true; part_001: return dictionaryMap).
afterCollection(c) ==
    IF c < Len(disk) THEN [pc |-> "stat", ci |-> c + 1, over |-> FALSE]
    ELSE [pc |-> "done", ci |-> c, over |-> TRUE]

-----------------------------------------------------------------------------
\* No dictionary operation has run: the constructor's fields and the locals.
Idle ==
    /\ loadPc = "root"
    /\ ci = 0
    /\ fi = 0
    /\ pending = {}
    /\ termDictionaries = EmptyMap
    /\ readingIndex = EmptyMap
    /\ isReady = FALSE
    /\ termBank = <<>>
    /\ dictionaryMap = <<>>
    /\ fileState = [p \in AllJsonFiles |-> "unread"]
    /\ loadError = "none"
    /\ pc = "init"
    /\ rlClosed = FALSE
    /\ stdinEnded = FALSE
    /\ searchTerm = Null
    /\ basicForm = Null
    /\ qi = 0
    /\ out = <<>>
    /\ tokens = <<>>
    /\ lemmaLog = <<>>
    /\ nInputs = 0
    /\ probe = [key |-> Null, at |-> "root", partial |-> FALSE, threw |-> FALSE,
                value |-> <<>>]

NoContent == [t |-> "absent"]

Init ==
    /\ variant \in {"ts", "js"}
    /\ disk \in Disks(MaxCollections, MaxFiles)
    /\ Idle
    /\ content = NoContent
    /\ startIndent = <<>>
    /\ lines = <<>>
    /\ logged = FALSE

NoProbe == [key |-> Null, at |-> "root", partial |-> FALSE, threw |-> FALSE,
            value |-> <<>>]

\* rl.question(...) on an interface that has been closed throws
\* ERR_USE_AFTER_CLOSE.
questionThrows == rlClosed

\* The loader leaves its loop position pos; when the loop is over the load
\* resolves: index.ts sets _isReady and initialize() goes on to build the
\* tokenizer, part_001 returns the map and main() issues the first prompt; if
\* that rl.question throws, main()'s catch logs the error and calls rl.close().
Goto(pos) ==
    /\ loadPc' = pos.pc
    /\ ci' = pos.ci
    /\ isReady' = IF variant = "ts" THEN pos.over ELSE isReady
    /\ pc' = IF ~pos.over THEN pc
             ELSE IF variant = "ts" THEN "tokenizer"
             ELSE IF questionThrows THEN "closed"
             ELSE "prompt"
    /\ rlClosed' = rlClosed
    /\ loadError' = loadError

\* the error logged and swallowed: the load resolves as if it had completed
AbortSwallowed(why) ==
    /\ loadPc' = "done"
    /\ ci' = ci
    /\ isReady' = (variant = "ts")
    /\ pc' = IF variant = "ts" THEN "tokenizer" ELSE "prompt"
    /\ rlClosed' = rlClosed
    /\ loadError' = why

\* catch (error) { console.error(...); throw error; } and the caller's handler:
\* index.ts logs the error and leaves rl as it is, main() of part_001 logs it
\* and closes rl.
Abort(why) ==
    /\ loadPc' = "failed"
    /\ ci' = ci
    /\ isReady' = isReady
    /\ pc' = IF variant = "ts" THEN "failed" ELSE "closed"
    /\ rlClosed' = (rlClosed \/ variant = "js")
    /\ loadError' = why

Stay(newPc) ==
    /\ loadPc' = newPc
    /\ UNCHANGED <<ci, isReady, pc, rlClosed, loadError>>

\* const collections = await fs.readdir(collectionsDir)
loadReaddirRoot(ok) ==
    /\ loadPc = "root"
    /\ IF ok THEN Goto(afterCollection(0)) ELSE Abort("io")
    /\ probe' = NoProbe
    /\ UNCHANGED <<flatVars, stdinEnded>>
    /\ UNCHANGED <<variant, disk, fi, pending, termDictionaries, readingIndex,
                   termBank, dictionaryMap, fileState>>
    /\ UNCHANGED queryVars

\* const stats = await fs.stat(collectionPath); if (stats.isDirectory()) ...
loadStat(ok) ==
    /\ loadPc = "stat"
    /\ IF ~ok THEN Abort("io")
       ELSE IF disk[ci].dir THEN Stay("readdir")
       ELSE Goto(afterCollection(ci))
    /\ probe' = NoProbe
    /\ UNCHANGED <<flatVars, stdinEnded>>
    /\ UNCHANGED <<variant, disk, fi, pending, termDictionaries, readingIndex,
                   termBank, dictionaryMap, fileState>>
    /\ UNCHANGED queryVars

\* index.ts: const files = await fs.readdir(collectionPath); jsonFiles = ...
tsReaddir(ok) ==
    /\ variant = "ts"
    /\ loadPc = "readdir"
    /\ IF ~ok THEN Abort("io") /\ fi' = fi
       ELSE IF jsonFiles(ci) = <<>> THEN Goto(afterCollection(ci)) /\ fi' = fi
       ELSE Stay("file") /\ fi' = 1
    /\ probe' = NoProbe
    /\ UNCHANGED <<flatVars, stdinEnded>>
    /\ UNCHANGED <<variant, disk, pending, termDictionaries, readingIndex,
                   termBank, dictionaryMap, fileState>>
    /\ UNCHANGED queryVars

\* Where the files loop of index.ts goes after the file at position i.
afterFile(i) ==
    IF i < Len(jsonFiles(ci)) THEN [more |-> TRUE, fi |-> i + 1]
    ELSE [more |-> FALSE, fi |-> i]

\* index.ts: try { JSON.parse(data) } catch { console.error(...); continue; }
tsParse(file) == IF file.parse = "fail" THEN "skip" ELSE "index"

\* part_001: const obj = JSON.parse(data), inside no try of its own
jsParse(file) == IF file.parse = "fail" THEN "throw" ELSE "index"

\* index.ts: const data = await fs.readFile(...); JSON.parse; index every entry
tsReadFile(ok) ==
    /\ variant = "ts"
    /\ loadPc = "file"
    /\ LET f == jsonFiles(ci)[fi]
           file == disk[ci].files[f]
           st == indexEntries(parsedEntries(file), 1, ci, f,
                     [term |-> termDictionaries, reading |-> readingIndex,
                      threw |-> FALSE])
           nxt == afterFile(fi)
           Continue == IF nxt.more THEN Stay("file") /\ fi' = nxt.fi
                       ELSE Goto(afterCollection(ci)) /\ fi' = fi
       IN  IF ~ok
           THEN /\ Abort("io")
                /\ fi' = fi
                /\ fileState' = [fileState EXCEPT ![<<ci, f>>] = "failed"]
                /\ UNCHANGED <<termDictionaries, readingIndex>>
           ELSE IF tsParse(file) = "throw"
           THEN /\ Abort("parse")
                /\ fi' = fi
                /\ fileState' = [fileState EXCEPT ![<<ci, f>>] = "failed"]
                /\ UNCHANGED <<termDictionaries, readingIndex>>
           ELSE IF tsParse(file) = "skip"
           THEN /\ Continue
                /\ fileState' = [fileState EXCEPT ![<<ci, f>>] = "skipped"]
                /\ UNCHANGED <<termDictionaries, readingIndex>>
           ELSE /\ termDictionaries' = st.term
                /\ readingIndex' = st.reading
                /\ IF st.threw
                   THEN /\ Abort("record")
                        /\ fi' = fi
                        /\ fileState' = [fileState EXCEPT ![<<ci, f>>] = "partial"]
                   ELSE /\ Continue
                        /\ fileState' = [fileState EXCEPT ![<<ci, f>>] = "indexed"]
    /\ probe' = NoProbe
    /\ UNCHANGED <<flatVars, stdinEnded>>
    /\ UNCHANGED <<variant, disk, pending, termBank, dictionaryMap>>
    /\ UNCHANGED queryVars

\* the file's entries assigned to termBank in place of what it held
concatParsedOverwrite(bank, file, c, f) ==
    [i \in 1..Len(file.recs) |-> [id |-> <<c, f, i>>, raw |-> file.recs[i]]]

\* termBank.concat(obj): the elements of an array, or the value itself
concatParsed(bank, file, c, f) ==
    bank \o [i \in 1..Len(file.recs) |-> [id |-> <<c, f, i>>, raw |-> file.recs[i]]]

\* part_001: files = await fs.readdir(collectionPath); every read is issued
\* at once (jsonFiles.map(async ...)); await Promise.all(readPromises)
jsReaddir(ok) ==
    /\ variant = "js"
    /\ loadPc = "readdir"
    /\ IF ~ok THEN Abort("io") /\ UNCHANGED <<pending, termBank, dictionaryMap>>
       ELSE IF jsonFiles(ci) = <<>>
       THEN /\ Goto(afterCollection(ci))
            /\ termBank' = <<>>
            /\ pending' = {}
            /\ dictionaryMap' = Append(dictionaryMap, [name |-> ci, bank |-> <<>>])
       ELSE /\ Stay("reads")
            /\ termBank' = <<>>
            /\ pending' = {jsonFiles(ci)[i] : i \in 1..Len(jsonFiles(ci))}
            /\ dictionaryMap' = dictionaryMap
    /\ probe' = NoProbe
    /\ UNCHANGED <<flatVars, stdinEnded>>
    /\ UNCHANGED <<variant, disk, fi, termDictionaries, readingIndex, fileState>>
    /\ UNCHANGED queryVars

\* part_001: one read promise settles: readFile, JSON.parse, termBank.concat.
\* A rejection rejects Promise.all at once; the reads still in flight then
\* complete all the same, on a termBank nobody holds, and their own failures
\* are swallowed by the settled Promise.all.
jsReadDone(f, ok) ==
    /\ variant = "js"
    /\ loadPc \in {"reads", "failed"}
    /\ f \in pending
    /\ pending' = pending \ {f}
    /\ LET file == disk[ci].files[f]
           bank == concatParsed(termBank, file, ci, f)
           threw == ~ok \/ jsParse(file) = "throw"
       IN  IF loadPc = "failed"
           THEN /\ termBank' = IF threw THEN termBank ELSE bank
                /\ fileState' = [fileState EXCEPT
                                    ![<<ci, f>>] = IF threw THEN "failed" ELSE "indexed"]
                /\ UNCHANGED <<loadPc, ci, isReady, pc, rlClosed, loadError,
                               dictionaryMap>>
           ELSE IF threw
           THEN /\ Abort(IF ~ok THEN "io" ELSE "parse")
                /\ fileState' = [fileState EXCEPT ![<<ci, f>>] = "failed"]
                /\ UNCHANGED <<termBank, dictionaryMap>>
           ELSE /\ termBank' = bank
                /\ fileState' = [fileState EXCEPT ![<<ci, f>>] = "indexed"]
                /\ IF pending' = {}
                   THEN /\ Goto(afterCollection(ci))
                        /\ dictionaryMap' =
                               Append(dictionaryMap, [name |-> ci, bank |-> bank])
                   ELSE /\ Stay("reads")
                        /\ dictionaryMap' = dictionaryMap
    /\ probe' = NoProbe
    /\ UNCHANGED <<flatVars, stdinEnded>>
    /\ UNCHANGED <<variant, disk, fi, termDictionaries, readingIndex>>
    /\ UNCHANGED queryVars

\* index.ts: this.tokenizer = await this.initializeTokenizer(); a rejection
\* reaches app.initialize().catch, which logs it; otherwise start() prompts,
\* and a throwing rl.question rejects start() into the same catch.
initializeTokenizer(ok) ==
    /\ variant = "ts"
    /\ pc = "tokenizer"
    /\ pc' = IF ok /\ ~questionThrows THEN "prompt" ELSE "failed"
    /\ probe' = NoProbe
    /\ UNCHANGED <<flatVars, stdinEnded>>
    /\ UNCHANGED <<variant, disk, rlClosed>>
    /\ UNCHANGED loadVars
    /\ UNCHANGED queryVars

Keys == {Wta, Wru, Wka, Empty, Undefined}

\* A direct call searcher.findTerm(key), at any moment of the searcher's life.
findTermCall(key) ==
    /\ variant = "ts"
    /\ pc \in {"init", "tokenizer", "failed", "prompt"}
    /\ nInputs = 0
    /\ probe' = [key |-> key, at |-> loadPc,
                 partial |-> (DOMAIN termDictionaries # {}),
                 threw |-> findTerm(key).threw, value |-> findTerm(key).value]
    /\ UNCHANGED <<flatVars, stdinEnded>>
    /\ UNCHANGED <<variant, disk, pc, rlClosed>>
    /\ UNCHANGED loadVars
    /\ UNCHANGED queryVars

-----------------------------------------------------------------------------
\* The prompt loop.

Xexit == <<"e", "x", "i", "t">>
Xquit == <<"q", "u", "i", "t">>
Xq == <<"q">>
Inputs == {Xexit, <<"E", "X", "I", "T">>, <<"Q", "u", "i", "t">>, Xq, <<"Q">>,
           <<"e", "x", "i", "t", " ">>, Empty, Wta, Wru, Wka}

UpperChars == <<"E", "X", "I", "T", "Q", "U">>
LowerChars == <<"e", "x", "i", "t", "q", "u">>

\* String.prototype.toLowerCase, on the letters the inputs use
toLowerCase(s) ==
    [i \in 1..Len(s) |->
        IF \E j \in 1..Len(UpperChars) : UpperChars[j] = s[i]
        THEN LowerChars[CHOOSE j \in 1..Len(UpperChars) : UpperChars[j] = s[i]]
        ELSE s[i]]

\* the comparison without toLowerCase
isExitCaseSensitive(s) == s \in {Xexit, Xquit, Xq}

\* ['exit', 'quit', 'q'].includes(searchTerm.toLowerCase())
isExit(s) == toLowerCase(s) \in {Xexit, Xquit, Xq}

\* What tokenizer.tokenize(text) may return: the basic_form of each token.
BasicForms == {Wru, Empty}
Tokens(text) == {<<>>} \cup {<<b>> : b \in BasicForms \cup {text}}
                       \cup {<<Wru, Wta>>}

\* index.ts getBasicForm: tokens.length === 0 ? searchTerm : tokens[0].basic_form
getBasicForm(text, toks) == IF toks = <<>> THEN text ELSE toks[1]

\* index.ts: the rl.question callback up to its first await
tsReadInput(s, toks) ==
    /\ variant = "ts"
    /\ pc = "prompt"
    /\ nInputs < MaxQueries
    /\ nInputs' = nInputs + 1
    /\ searchTerm' = s
    /\ lemmaLog' = <<>>
    /\ IF isExit(s)
       THEN /\ rlClosed' = TRUE
            /\ pc' = "closed"
            /\ out' = <<>>
       ELSE /\ rlClosed' = rlClosed
            /\ LET r == findTerm(s)
               IN  IF r.threw THEN pc' = "crashed" /\ out' = <<>>
                   ELSE IF r.value # <<>>
                   THEN pc' = "prompt" /\ out' = <<[coll |-> 0, entries |-> r.value]>>
                   ELSE pc' = "lemma" /\ out' = <<>>
    /\ tokens' = IF pc' = "lemma" THEN toks ELSE <<>>
    /\ probe' = NoProbe
    /\ UNCHANGED <<flatVars, stdinEnded>>
    /\ UNCHANGED <<variant, disk, basicForm, qi>>
    /\ UNCHANGED loadVars

\* index.ts: the callback after await this.getBasicForm(searchTerm): the
\* results are displayed, then processQuery() asks the next question; if
\* rl.question throws there, the rejection is handled by nobody.
tsLemmaResume ==
    /\ variant = "ts"
    /\ pc = "lemma"
    /\ LET bf == getBasicForm(searchTerm, tokens)
           results == IF bf # searchTerm THEN findTerm(bf).value ELSE <<>>
       IN  /\ lemmaLog' = Append(lemmaLog, [coll |-> 0, ok |-> TRUE, form |-> bf])
           /\ out' = <<[coll |-> 0, entries |-> results]>>
    /\ pc' = IF questionThrows THEN "crashed" ELSE "prompt"
    /\ probe' = NoProbe
    /\ UNCHANGED <<flatVars, stdinEnded>>
    /\ UNCHANGED <<variant, disk, rlClosed, searchTerm, basicForm, qi, tokens, nInputs>>
    /\ UNCHANGED loadVars

\* part_001: the filter predicate reads entry[0] of every element
filterThrows(bank) == \E i \in 1..Len(bank) : bank[i].raw.k = "null"

\* (typeof entry[0] === 'string' && entry[0] === key) || (... entry[1] === key)
matches(entry, key) ==
    /\ entry.raw.k = "arr"
    /\ \/ Len(entry.raw.f) >= 1 /\ entry.raw.f[1] = key
       \/ Len(entry.raw.f) >= 2 /\ entry.raw.f[2] = key

filter(bank, key) == LET Hit(e) == matches(e, key) IN SelectSeq(bank, Hit)

\* !basicForm
notBasicForm(bf) == bf = Null \/ bf = Empty

\* part_001: the for loop over dictionaryMap from collection i on, run until it
\* ends, throws, or suspends at await getBasicForm(searchTerm)
RECURSIVE runLoop(_, _, _, _)
runLoop(i, q, bf, o) ==
    IF i > Len(dictionaryMap) THEN [st |-> "done", i |-> i, out |-> o]
    ELSE LET bank == dictionaryMap[i].bank
             name == dictionaryMap[i].name
         IN  IF filterThrows(bank) THEN [st |-> "threw", i |-> i, out |-> o]
             ELSE IF filter(bank, q) # <<>>
             THEN runLoop(i + 1, q, bf,
                      Append(o, [coll |-> name, entries |-> filter(bank, q)]))
             ELSE IF notBasicForm(bf) THEN [st |-> "await", i |-> i, out |-> o]
             ELSE runLoop(i + 1, q, bf,
                      IF filter(bank, bf) # <<>>
                      THEN Append(o, [coll |-> name, entries |-> filter(bank, bf)])
                      ELSE o)

\* part_001: the iteration of collection i once basicForm has been assigned
resumeLoop(i, q, bf, o) ==
    LET bank == dictionaryMap[i].bank
        name == dictionaryMap[i].name
    IN  runLoop(i + 1, q, bf,
            IF filter(bank, bf) # <<>>
            THEN Append(o, [coll |-> name, entries |-> filter(bank, bf)])
            ELSE o)

\* part_001: the rl.question callback up to its first await
jsReadInput(s, toks) ==
    /\ variant = "js"
    /\ pc = "prompt"
    /\ nInputs < MaxQueries
    /\ nInputs' = nInputs + 1
    /\ searchTerm' = s
    /\ lemmaLog' = <<>>
    /\ IF isExit(s)
       THEN /\ rlClosed' = TRUE
            /\ pc' = "closed"
            /\ out' = <<>>
            /\ UNCHANGED <<basicForm, qi>>
       ELSE /\ rlClosed' = rlClosed
            /\ basicForm' = Null
            /\ LET r == runLoop(1, s, Null, <<>>)
               IN  /\ out' = r.out
                   /\ qi' = r.i
                   /\ pc' = CASE r.st = "done" -> "prompt"
                              [] r.st = "await" -> "lemma"
                              [] OTHER -> "crashed"
    /\ tokens' = IF pc' = "lemma" THEN toks ELSE <<>>
    /\ probe' = NoProbe
    /\ UNCHANGED <<flatVars, stdinEnded>>
    /\ UNCHANGED <<variant, disk>>
    /\ UNCHANGED loadVars

\* part_001 getBasicForm: builds a tokenizer, then resolve(tokens[0].basic_form).
\* A build error rejects the promise; an empty token list raises a TypeError
\* inside the kuromoji callback, and the promise never resolves.
getBasicFormJs(built, toks) ==
    IF ~built THEN [ok |-> FALSE, form |-> Null]
    ELSE IF toks = <<>> THEN [ok |-> FALSE, form |-> Null]
    ELSE [ok |-> TRUE, form |-> toks[1]]

\* part_001: the getBasicForm call of the suspended callback settles; the
\* loop goes on, and after it processQuery() asks the next question, which
\* ends the callback with an unhandled rejection if rl.question throws.
jsLemmaResume(built) ==
    /\ variant = "js"
    /\ pc = "lemma"
    /\ LET g == getBasicFormJs(built, tokens)
       IN  /\ lemmaLog' = Append(lemmaLog, [coll |-> dictionaryMap[qi].name,
                                            ok |-> g.ok, form |-> g.form])
           /\ IF ~g.ok
              THEN /\ pc' = "crashed"
                   /\ UNCHANGED <<basicForm, qi, out>>
              ELSE /\ basicForm' = g.form
                   /\ LET r == resumeLoop(qi, searchTerm, g.form, out)
                      IN  /\ out' = r.out
                          /\ qi' = r.i
                          /\ pc' = CASE r.st = "done" ->
                                         IF questionThrows THEN "crashed" ELSE "prompt"
                                     [] r.st = "await" -> "lemma"
                                     [] OTHER -> "crashed"
    /\ probe' = NoProbe
    /\ UNCHANGED <<flatVars, stdinEnded>>
    /\ UNCHANGED <<variant, disk, rlClosed, searchTerm, tokens, nInputs>>
    /\ UNCHANGED loadVars

\* process.stdin ends (end of a pipe, Ctrl-D): readline closes the interface.
\* A pending question is dropped, its callback is never called; a program
\* that is loading or awaiting getBasicForm goes on with a closed interface.
\* A question callback that threw before its first await has returned to
\* readline, which handles the rest of the input before the process ends on
\* the rejection; a failure after the await ends the process at once.
stdinEnd ==
    /\ ~rlClosed
    /\ \/ pc \in {"init", "tokenizer", "prompt", "lemma", "failed"}
       \/ pc = "crashed" /\ lemmaLog = <<>>
    /\ rlClosed' = TRUE
    /\ stdinEnded' = TRUE
    /\ pc' = IF pc = "prompt" THEN "closed" ELSE pc
    /\ probe' = NoProbe
    /\ UNCHANGED flatVars
    /\ UNCHANGED <<variant, disk>>
    /\ UNCHANGED loadVars
    /\ UNCHANGED queryVars

Next ==
    \/ \E ok \in BOOLEAN : loadReaddirRoot(ok)
    \/ \E ok \in BOOLEAN : loadStat(ok)
    \/ \E ok \in BOOLEAN : tsReaddir(ok)
    \/ \E ok \in BOOLEAN : tsReadFile(ok)
    \/ \E ok \in BOOLEAN : jsReaddir(ok)
    \/ \E f \in 1..(MaxFiles + 1), ok \in BOOLEAN : jsReadDone(f, ok)
    \/ \E ok \in BOOLEAN : initializeTokenizer(ok)
    \/ \E key \in Keys : findTermCall(key)
    \/ \E s \in Inputs : \E toks \in Tokens(s) : tsReadInput(s, toks)
    \/ tsLemmaResume
    \/ \E s \in Inputs : \E toks \in Tokens(s) : jsReadInput(s, toks)
    \/ \E built \in BOOLEAN : jsLemmaResume(built)
    \/ stdinEnd

Spec == Init /\ [][Next]_vars

\* An awaited getBasicForm call comes back to the suspended callback: the
\* promise settles, or the kuromoji callback throws.
Fairness ==
    /\ WF_vars(tsLemmaResume)
    /\ WF_vars(\E built \in BOOLEAN : jsLemmaResume(built))

FairSpec == Spec /\ Fairness

-----------------------------------------------------------------------------
\* logContent (src/unnamed/part_001, src/index.js)

\* Content values: a string, an array, and an object with a content field
\* (or without one).
Str(s) == [t |-> "str", s |-> s]
List(items) == [t |-> "list", items |-> items]
Node(c) == [t |-> "node", c |-> c]

Strings == {<<"a">>, <<"a", "\n", "\n", " ", "b", " ">>, <<" ">>}
Leaves == {Str(s) : s \in Strings}

\* Content trees of exactly n values, and sequences of trees of n values in all.
SizeOne == Leaves \cup {List(<<>>), Node(NoContent), Node(Str(<<>>))}

RECURSIVE TreesOfSize(_), SeqsOfSize(_)
TreesOfSize(n) ==
    IF n <= 0 THEN {}
    ELSE IF n = 1 THEN SizeOne
    ELSE {Node(c) : c \in TreesOfSize(n - 1)}
             \cup {List(items) : items \in SeqsOfSize(n - 1)}
SeqsOfSize(n) ==
    IF n = 0 THEN {<<>>}
    ELSE UNION {{<<t>> \o r : t \in TreesOfSize(k), r \in SeqsOfSize(n - k)}
                : k \in 1..n}

Trees == UNION {TreesOfSize(n) : n \in 1..MaxSize}

IsSpace(ch) == ch \in {" ", "\n"}

RECURSIVE trimStart(_)
trimStart(s) == IF s = <<>> \/ ~IsSpace(Head(s)) THEN s ELSE trimStart(Tail(s))

RECURSIVE trimEnd(_)
trimEnd(s) ==
    IF s = <<>> \/ ~IsSpace(s[Len(s)]) THEN s ELSE trimEnd(SubSeq(s, 1, Len(s) - 1))

\* String.prototype.trim
trim(s) == trimEnd(trimStart(s))

\* s.split('\n')
RECURSIVE split(_)
split(s) ==
    IF \A i \in 1..Len(s) : s[i] # "\n" THEN <<s>>
    ELSE LET i == CHOOSE j \in 1..Len(s) :
                      s[j] = "\n" /\ \A k \in 1..(j - 1) : s[k] # "\n"
         IN  <<SubSeq(s, 1, i - 1)>> \o split(SubSeq(s, i + 1, Len(s)))

\* s.split('\n').filter((line) => line.trim())
\*  .forEach((line) => console.log(`${indent} ${line.trim()}`))
logString(s, indent) ==
    LET NotBlank(line) == trim(line) # <<>>
        kept == SelectSeq(split(s), NotBlank)
    IN  [i \in 1..Len(kept) |-> indent \o <<" ">> \o trim(kept[i])]

\* if (data.content): undefined and '' are falsy
truthy(c) == ~(c.t = "absent" \/ (c.t = "str" /\ c.s = <<>>))

\* The strings logContent(data, indent) passes to console.log, in order.
RECURSIVE logContent(_, _), logItems(_, _, _)
logContent(data, indent) ==
    IF data.t = "list" THEN logItems(data.items, 1, indent)
    ELSE IF data.t = "node"
    THEN IF ~truthy(data.c) THEN <<>>
         ELSE IF data.c.t = "str" THEN <<indent \o <<" ">> \o trim(data.c.s)>>
         ELSE logContent(data.c, indent \o <<" ", " ">>)
    ELSE IF data.t = "str" THEN logString(data.s, indent)
    ELSE <<>>
\* data.forEach((item) => ...)
logItems(items, i, indent) ==
    IF i > Len(items) THEN <<>>
    ELSE (IF items[i].t = "str" THEN logString(items[i].s, indent)
          ELSE IF items[i].t \in {"list", "node"} THEN logContent(items[i], indent)
          ELSE <<>>) \o logItems(items, i + 1, indent)

Indents == {<<>>, <<" ", " ">>}

InitFlatten ==
    /\ variant = "flatten"
    /\ disk = <<>>
    /\ Idle
    /\ content \in Trees
    /\ startIndent \in Indents
    /\ lines = <<>>
    /\ logged = FALSE

\* one call logContent(content, startIndent)
logContentCall ==
    /\ variant = "flatten"
    /\ ~logged
    /\ lines' = logContent(content, startIndent)
    /\ logged' = TRUE
    /\ UNCHANGED <<variant, disk, pc, rlClosed, stdinEnded, probe, content,
                   startIndent>>
    /\ UNCHANGED loadVars
    /\ UNCHANGED queryVars

NextFlatten == logContentCall

SpecFlatten == InitFlatten /\ [][NextFlatten]_vars

-----------------------------------------------------------------------------
\* What the disk holds, read off the disk alone.

FileAt(p) == disk[p[1]].files[p[2]]
FileRecords(p) == {<<p[1], p[2], i>> : i \in 1..Len(FileAt(p).recs)}
RecordAt(id) == disk[id[1]].files[id[2]].recs[id[3]]

IdsOfSeq(xs) == {xs[i].id : i \in 1..Len(xs)}
IdsOfMap(map) == UNION {IdsOfSeq(map[k]) : k \in DOMAIN map}
BankIds == UNION {IdsOfSeq(dictionaryMap[i].bank) : i \in 1..Len(dictionaryMap)}

\* Every record of file p is held by the index (ts) or by a term bank (js).
FullyIndexed(p) ==
    IF variant = "ts"
    THEN FileRecords(p) \subseteq (IdsOfMap(termDictionaries) \cap IdsOfMap(readingIndex))
    ELSE FileRecords(p) \subseteq BankIds

-----------------------------------------------------------------------------
\* C1: a findTerm call made at any moment before loadDictionaries has completed
\* successfully throws 'Dictionaries not loaded'; it returns no result list,
\* empty or not, whatever the index holds at that moment.
C1_NotLoadedThrows ==
    variant = "ts" =>
        /\ \A k \in Keys :
              loadPc # "done" => findTerm(k).threw /\ findTerm(k).value = <<>>
        /\ (probe.key # Null /\ probe.at # "done")
              => probe.threw /\ probe.value = <<>>

\* a call made between two file reads, for a key the index already holds
C1_Witness ==
    /\ probe.key # Null
    /\ probe.at = "file"
    /\ probe.key \in DOMAIN termDictionaries
    /\ probe.threw

\* C2: whenever the index is ready, or a query is being or has been resolved,
\* every .json file of every collection directory has been fully indexed or
\* has been reported and skipped; none is unread or partly indexed.
C2_ReadyAfterEveryFile ==
    (isReady \/ pc \in {"prompt", "lemma"} \/ nInputs > 0) =>
        \A p \in AllJsonFiles :
            \/ fileState[p] = "skipped" /\ FileAt(p).parse = "fail"
            \/ fileState[p] = "indexed" /\ FileAt(p).parse = "ok" /\ FullyIndexed(p)

\* a query suspended at the lemma call, on an index built from one skipped
\* file and one indexed file
C2_Witness ==
    /\ variant = "ts"
    /\ isReady
    /\ pc = "lemma"
    /\ \E p \in AllJsonFiles : fileState[p] = "skipped"
    /\ \E p \in AllJsonFiles : fileState[p] = "indexed" /\ FileRecords(p) # {}

\* The collections the loader keeps: the directories under the root.
Collections == {c \in 1..Len(disk) : disk[c].dir}
RecordsIn(c) == UNION {FileRecords(p) : p \in {q \in AllJsonFiles : q[1] = c}}

\* term == key or reading == key, on the record as the disk holds it
TermOf(rec) == IF rec.k = "arr" /\ Len(rec.f) >= 1 THEN rec.f[1] ELSE Undefined
ReadingOf(rec) == IF rec.k = "arr" /\ Len(rec.f) >= 2 THEN rec.f[2] ELSE Undefined
MatchIds(c, key) ==
    {id \in RecordsIn(c) : TermOf(RecordAt(id)) = key \/ ReadingOf(RecordAt(id)) = key}

\* The lemma of the query in progress, once the tokenizer has been asked.
Lemma == IF tokens # <<>> THEN tokens[1] ELSE Null

\* The lemma the tokenizer gives the query in progress: the one it gave when
\* getBasicForm has been called, any it may give when the query has not
\* called it.
LemmaAsked == pc = "lemma" \/ lemmaLog # <<>>
LemmaOptions ==
    IF LemmaAsked THEN {Lemma}
    ELSE {getBasicForm(searchTerm, t) : t \in Tokens(searchTerm)}

\* exact matches when there are any, otherwise the matches for the lemma
ExpectedIds(c, lemma) ==
    IF MatchIds(c, searchTerm) # {} THEN MatchIds(c, searchTerm) ELSE MatchIds(c, lemma)

\* The collections the current query has finished with: all of them once the
\* next prompt is shown, and before that those the loop of part_001 has passed.
Evaluated ==
    IF pc = "prompt" THEN Collections
    ELSE {dictionaryMap[j].name : j \in {k \in 1..Len(dictionaryMap) : k < qi}}

OutColls == {out[j].coll : j \in 1..Len(out)}

\* The entries of collection c among those displayed for the current query.
ShownIds(c) ==
    UNION {{out[j].entries[i].id :
               i \in {n \in 1..Len(out[j].entries) : out[j].entries[n].id[1] = c}}
           : j \in 1..Len(out)}

\* C3: a query is resolved collection by collection: for every collection the
\* query has finished with, the entries displayed from it are its exact matches
\* if it has any and otherwise its matches for the query's lemma, whatever the
\* other collections matched; and where the output is grouped by collection
\* (part_001/index.js), a collection has a group exactly when that result is
\* not empty, the group holding each entry once, in collection order.
C3_PerCollectionResult ==
    (nInputs > 0 /\ pc \in {"prompt", "lemma", "crashed"}) =>
        \A lemma \in LemmaOptions :
            /\ \A c \in Evaluated : ShownIds(c) = ExpectedIds(c, lemma)
            /\ variant = "js" =>
                  /\ OutColls = {c \in Evaluated : ExpectedIds(c, lemma) # {}}
                  /\ \A j \in 1..Len(out) :
                        /\ IdsOfSeq(out[j].entries) = ExpectedIds(out[j].coll, lemma)
                        /\ Cardinality(IdsOfSeq(out[j].entries)) = Len(out[j].entries)
                        /\ \A k \in 1..Len(out) : k < j => out[k].coll < out[j].coll

\* The getBasicForm calls of the current query: those settled and the one awaited.
LemmaCalls == Len(lemmaLog) + (IF pc = "lemma" THEN 1 ELSE 0)
LemmaCallers ==
    {lemmaLog[j].coll : j \in 1..Len(lemmaLog)}
        \cup (IF pc = "lemma" THEN {dictionaryMap[qi].name} ELSE {})

\* C4: within one query of part_001/index.js getBasicForm is invoked at most
\* once, whatever it returned; never for a collection with an exact match; and
\* a finished query has invoked it exactly when some collection has no exact
\* match.
C4_LemmaOncePerQuery ==
    (variant = "js" /\ nInputs > 0 /\ pc \in {"prompt", "lemma", "crashed"}) =>
        /\ LemmaCalls <= 1
        /\ \A c \in LemmaCallers : MatchIds(c, searchTerm) = {}
        /\ pc = "prompt" =>
              (LemmaCalls = 1 <=> \E c \in Collections : MatchIds(c, searchTerm) = {})

\* C5, as stated: on a ready index the lookup on behalf of a collection
\* returns exactly that collection's entries whose term or reading is the key.
C5_LookupPerCollection ==
    (variant = "ts" /\ isReady) =>
        \A k \in Keys, c \in Collections :
            IdsOfSeq(findTerm(k).value) = MatchIds(c, k)

AllMatchIds(key) == UNION {MatchIds(c, key) : c \in Collections}

\* C5, amended: on a ready index findTerm(key) returns, without error, exactly
\* the entries loaded from all the collections together whose term or reading
\* is the key, each once; an empty sequence when there is none.
C5_LookupAcrossCollections ==
    (variant = "ts" /\ isReady) =>
        /\ \A k \in Keys :
              /\ ~findTerm(k).threw
              /\ IdsOfSeq(findTerm(k).value) = AllMatchIds(k)
              /\ Len(findTerm(k).value) = Cardinality(AllMatchIds(k))
        /\ (probe.key # Null /\ probe.at = "done") =>
              /\ ~probe.threw
              /\ IdsOfSeq(probe.value) = AllMatchIds(probe.key)
              /\ Len(probe.value) = Cardinality(AllMatchIds(probe.key))

\* a direct call whose result holds an entry with term = reading = key once,
\* two distinct records with identical fields, and entries of two collections
C5_Witness ==
    /\ probe.key # Null
    /\ probe.at = "done"
    /\ \E i \in 1..Len(probe.value) :
          probe.value[i].term = probe.key /\ probe.value[i].reading = probe.key
    /\ \E i, j \in 1..Len(probe.value) :
          /\ i # j
          /\ probe.value[i].term = probe.value[j].term
          /\ probe.value[i].reading = probe.value[j].reading
    /\ \E i, j \in 1..Len(probe.value) : probe.value[i].id[1] # probe.value[j].id[1]

\* The entries the loader holds: those of the two maps (index.ts), those of the
\* stored term banks and of the term bank being filled (part_001/index.js).
HeldIds ==
    IF variant = "ts" THEN IdsOfMap(termDictionaries) \cap IdsOfMap(readingIndex)
    ELSE BankIds \cup IdsOfSeq(termBank)

\* C6: a file whose content fails to parse is skipped and nothing else is: the
\* load is never aborted by a parse failure, only such files are skipped, every
\* file indexed before or after keeps all its entries, and a load that
\* completes has indexed every parsable file and made the index ready.
C6_ParseFailureSkipsOneFile ==
    /\ loadError # "parse"
    /\ \A p \in AllJsonFiles :
          /\ fileState[p] = "skipped" => FileAt(p).parse = "fail"
          /\ fileState[p] = "indexed" =>
                FileAt(p).parse = "ok" /\ FileRecords(p) \subseteq HeldIds
          /\ FileAt(p).parse = "fail" => FileRecords(p) \cap HeldIds = {}
    /\ loadPc = "done" =>
          /\ variant = "ts" => isReady
          /\ \A p \in AllJsonFiles :
                fileState[p] = (IF FileAt(p).parse = "fail" THEN "skipped" ELSE "indexed")

\* C7: once a read of the root, of a collection directory or of a file has
\* failed, the load is aborted and stays so: the error has reached the caller's
\* handler, the index is not ready, and no line is read and nothing displayed.
C7_IoFailureAbortsLoad ==
    loadError = "io" =>
        /\ loadPc = "failed"
        /\ ~isReady
        /\ pc = (IF variant = "ts" THEN "failed" ELSE "closed")
        /\ nInputs = 0
        /\ out = <<>>

\* a file read that failed after entries of an earlier file had been indexed
C7_Witness ==
    /\ variant = "ts"
    /\ loadError = "io"
    /\ \E p \in AllJsonFiles : fileState[p] = "failed"
    /\ IdsOfMap(termDictionaries) # {}

\* a record that holds a term: a sequence with at least one position
TupleShaped(rec) == rec.k = "arr" /\ Len(rec.f) >= 1

\* C8: in index.ts a record that is not tuple-shaped is indexed under no key,
\* and it does not abort the load.
C8_BadRecordSkipped ==
    variant = "ts" =>
        /\ loadError # "record"
        /\ \A id \in IdsOfMap(termDictionaries) \cup IdsOfMap(readingIndex) :
              TupleShaped(RecordAt(id))

\* "exit", "quit" or "q" in any letter case
ExitCommand(s) ==
    s \in {Xexit, <<"E", "X", "I", "T">>, Xquit, <<"Q", "u", "i", "t">>, Xq, <<"Q">>}

\* an exit input closes the interface and is not resolved as a query
ExitNotResolved ==
    (nInputs > 0 /\ ExitCommand(searchTerm)) =>
        pc = "closed" /\ rlClosed /\ out = <<>> /\ LemmaCalls = 0 /\ tokens = <<>>

\* C9, as stated: the interface is closed only by reading an exit command.
C9_ClosedOnlyByExit ==
    /\ rlClosed => (nInputs > 0 /\ ExitCommand(searchTerm))
    /\ ExitNotResolved

\* C9, amended: the interface is closed only by reading an exit command, by
\* the end of standard input or, in part_001/index.js, by main() when the load
\* has failed before the first prompt; no other input, empty result or error
\* of a query closes it, and an exit input is never resolved as a query.
C9_ClosedByExitOrFailedLoad ==
    /\ rlClosed =>
          \/ nInputs > 0 /\ ExitCommand(searchTerm)
          \/ stdinEnded
          \/ variant = "js" /\ loadPc = "failed" /\ nInputs = 0
    /\ pc = "closed" => rlClosed
    /\ (rlClosed /\ ~stdinEnded) => pc = "closed"
    /\ ExitNotResolved

\* a session closed by "Quit" after an earlier query had been answered
C9_Witness ==
    /\ rlClosed
    /\ searchTerm = <<"Q", "u", "i", "t">>
    /\ nInputs >= 2

\* The text lines of a content tree in depth-first, left-to-right order, each
\* with the number of enclosing Nodes whose content is not a string. A string
\* gives its lines that are not blank, trimmed, whether it is the whole value,
\* an element of an array or the content of a Node.
RECURSIVE TextLeaves(_, _)
TextLeaves(data, depth) ==
    CASE data.t = "str" ->
           LET NotBlank(line) == trim(line) # <<>>
               kept == SelectSeq(split(data.s), NotBlank)
           IN  [i \in 1..Len(kept) |-> [depth |-> depth, text |-> trim(kept[i])]]
      [] data.t = "list" ->
           IF data.items = <<>> THEN <<>>
           ELSE TextLeaves(Head(data.items), depth)
                    \o TextLeaves(List(Tail(data.items)), depth)
      [] data.t = "node" ->
           IF data.c.t = "str" THEN TextLeaves(data.c, depth)
           ELSE TextLeaves(data.c, depth + 1)
      [] OTHER -> <<>>

Spaces(n) == [i \in 1..n |-> " "]

\* The lines the terminal shows for the strings passed to console.log: a
\* string with embedded newlines shows as several lines.
RECURSIVE DisplayLines(_)
DisplayLines(logs) ==
    IF logs = <<>> THEN <<>> ELSE split(Head(logs)) \o DisplayLines(Tail(logs))

\* the displayed lines that hold text
TextDisplayLines ==
    LET NotBlank(line) == trim(line) # <<>>
    IN  SelectSeq(DisplayLines(lines), NotBlank)

\* C10: logContent displays the text lines of the tree in depth-first,
\* left-to-right order, each as its indent, one separating space and the text,
\* the indent of every line being the starting indent plus two spaces for every
\* enclosing Node whose content is not a string; arrays add none, a Node whose
\* content is a string displays it at the current indent, and a Node with
\* absent or falsy content displays nothing.
C10_FlattenIndent ==
    (variant = "flatten" /\ logged) =>
        LET want == TextLeaves(content, 0)
            shown == TextDisplayLines
        IN  /\ Len(shown) = Len(want)
            /\ \A i \in 1..Len(want) :
                  shown[i] = Spaces(Len(startIndent) + 2 * want[i].depth)
                                 \o <<" ">> \o want[i].text

\* The exact pass of the current query: the entries whose term or reading is
\* the query itself, of the whole index (ts) or of one collection (js).
ExactIds(c) == IF variant = "ts" THEN AllMatchIds(searchTerm) ELSE MatchIds(c, searchTerm)
ExactColls ==
    IF variant = "ts" THEN {} ELSE {c \in Collections : MatchIds(c, searchTerm) # {}}

\* the getBasicForm call of the current query was made on an empty token
\* sequence and is over, with standard input still open
EmptyTokensSettled == nInputs > 0 /\ tokens = <<>> /\ lemmaLog # <<>> /\ ~stdinEnded

\* C11: when tokenize(query) is empty, getBasicForm returns the query itself
\* without failing, and the query ends at the next prompt with exactly the
\* result of the exact pass.
C11_EmptyTokensFallback ==
    EmptyTokensSettled =>
        /\ \A j \in 1..Len(lemmaLog) : lemmaLog[j].ok /\ lemmaLog[j].form = searchTerm
        /\ pc = "prompt"
        /\ \A j \in 1..Len(out) : IdsOfSeq(out[j].entries) = ExactIds(out[j].coll)
        /\ variant = "js" => OutColls = ExactColls

\* a query has been read and its callback has not come to its end
Resolving == nInputs > 0 /\ pc \in {"lemma", "crashed"}

\* C12: a query that has been read always ends, at the next prompt or with the
\* interface closed (by an exit command or by the end of standard input), also
\* when getBasicForm fails; and a line is read only at the prompt, never while
\* a query is resolving.
C12_QueryCycleEnds ==
    /\ Resolving ~> (pc \in {"prompt", "closed"} \/ rlClosed)
    /\ [][nInputs' # nInputs => pc = "prompt"]_vars

\* The orders in which the .json files of collection c can be taken.
FileOrders(c) ==
    LET fs == {p[2] : p \in {q \in AllJsonFiles : q[1] = c}}
    IN  {o \in [1..Cardinality(fs) -> fs] :
            \A i, j \in 1..Cardinality(fs) : i # j => o[i] # o[j]}

\* The entry sequence of file f of collection c, as the file holds it.
FileEntries(c, f) ==
    [i \in 1..Len(disk[c].files[f].recs) |->
        [id |-> <<c, f, i>>, raw |-> disk[c].files[f].recs[i]]]

RECURSIVE ConcatInOrder(_, _)
ConcatInOrder(c, o) ==
    IF o = <<>> THEN <<>> ELSE FileEntries(c, Head(o)) \o ConcatInOrder(c, Tail(o))

\* C13: in part_001/index.js, whatever the order in which the concurrent reads
\* of a collection's files complete, the term bank stored for the collection
\* is the concatenation of the files' entry sequences in some order of the
\* files: every entry once, the entries of one file together and in file order.
C13_ConcurrentReadsConcatenate ==
    variant = "js" =>
        \A k \in 1..Len(dictionaryMap) :
            LET c == dictionaryMap[k].name
                bank == dictionaryMap[k].bank
            IN  /\ \E o \in FileOrders(c) : bank = ConcatInOrder(c, o)
                /\ IdsOfSeq(bank) = RecordsIn(c)
                /\ Len(bank) = Cardinality(RecordsIn(c))

\* a collection of two files with entries whose second file was read first:
\* its entries come first in the stored term bank
C13_Witness ==
    /\ variant = "js"
    /\ \E k \in 1..Len(dictionaryMap) :
          LET bank == dictionaryMap[k].bank
          IN  /\ Len(bank) >= 2
              /\ bank[1].id[2] = 2
              /\ bank[Len(bank)].id[2] = 1
====
